---- MODULE Spec2Model ----
(***************************************************************************)
(* Context Summarization Filter (context_summarization_filter.py).         *)
(*                                                                         *)
(* One invocation of Filter.inlet on a filter instance, cut at its         *)
(* suspension points (status emission, the summarization call) and at the  *)
(* iterations of the find_dynamic_split loop.                              *)
(*                                                                         *)
(* Text is a sequence of lexemes: each lexeme is a fragment of the string  *)
(* the code handles (a prose fragment, a piece of escaped or raw JSON, a   *)
(* literal of the code).  A string is the concatenation of its lexemes.    *)
(***************************************************************************)
EXTENDS Integers, Sequences, FiniteSets, TLC

\* ------------------------------------------------------------------ bounds

\* longest conversation the caller submits
MaxMsgs == 3
\* largest configured messages_to_keep
MaxKeep == 2
\* largest configured min_messages_to_keep
MaxMinKeep == 2
MaxPhrases == 3

\* ------------------------------------------------------------ sequences

RECURSIVE SumSeq(_)
SumSeq(s) == IF s = <<>> THEN 0 ELSE Head(s) + SumSeq(Tail(s))

SeqsUpTo(S, n) == UNION {[1..k -> S] : k \in 0..n}

\* Python s[:n] and s[n:] for 0 <= n
Take(s, n) == SubSeq(s, 1, IF n < Len(s) THEN n ELSE Len(s))
Drop(s, n) == SubSeq(s, (IF n < Len(s) THEN n ELSE Len(s)) + 1, Len(s))

\* Python s[:-k]: for k = 0 this is s[:0], the empty list
SliceToMinus(s, k) == IF k <= 0 THEN Take(s, 0 - k) ELSE Take(s, IF Len(s) > k THEN Len(s) - k ELSE 0)
\* Python s[-k:]: for k = 0 this is s[0:], the whole list
SliceFromMinus(s, k) == IF k <= 0 THEN Drop(s, 0 - k) ELSE Drop(s, IF Len(s) > k THEN Len(s) - k ELSE 0)

\* ------------------------------------------------------------- lexemes

\* raw JSON, as a tool result appears unescaped
KEY_RESULTS == "{\"results\": "
LB == "["
RB == "]"
RBRACE == "}"
COMMA == ", "
ROW1 == "{\"id\": 1}"
ROW2 == "{\"id\": 2}"
\* a row that holds an array of mappings: {"items": [{"a": 1}], "n": 2}
OBJ_ITEMS == "{\"items\": "
ROW_A == "{\"a\": 1}"
TAIL_N == ", \"n\": 2}"
\* stands for an array nested 1000 deep, [[[ ... ]]], of 2000 characters
DEEP_ARRAY == "[[[[ ... ]]]]"
\* a row that is not JSON
BAD_ROW == "{oops"
\* the same, HTML-entity escaped by the upstream serializer
KEY_RESULTS_HTML == "{&quot;results&quot;: "
ROW1_HTML == "{&quot;id&quot;: 1}"
ROW2_HTML == "{&quot;id&quot;: 2}"
\* the failure phrase of a failed tool call
QEF == "Query execution failed"

\* ------------------------------------------------------------ messages

\* content is a string (kind "str", its lexemes in text) or a multi-part list
\* (kind "list", its parts in parts, each part [type, text])
StrContent(text) == [kind |-> "str", text |-> text, parts |-> <<>>]
ListContent(parts) == [kind |-> "list", text |-> <<>>, parts |-> parts]
Message(role, content) == [role |-> role, content |-> content]

T_base == <<"You are helpful.">>
T_rag == <<"Retrieved knowledge.">>
T_user == <<"What is in the table?">>
T_asst == <<"The table has two rows.">>
T_tool == <<KEY_RESULTS_HTML, LB, ROW1_HTML, COMMA, ROW2_HTML, RB, RBRACE>>

m_base == Message("system", StrContent(T_base))
m_rag == Message("system", StrContent(T_rag))
m_user == Message("user", StrContent(T_user))
m_asst == Message("assistant", StrContent(T_asst))
m_tool == Message("assistant", StrContent(T_tool))
T_nest == <<KEY_RESULTS, LB, OBJ_ITEMS, LB, ROW_A, RB, TAIL_N, RB, RBRACE>>
m_nest == Message("assistant", StrContent(T_nest))
m_parts == Message("assistant",
                   ListContent(<<[type |-> "text", text |-> <<"See the picture.">>],
                                 [type |-> "image_url", text |-> <<>>]>>))

MessageUniverse == {m_base, m_rag, m_user, m_asst, m_tool, m_parts}

\* --------------------------------------------------- Token Accountant

\* tiktoken cl100k_base, abstracted: one token per lexeme
count_tokens(text) == IF text = <<>> THEN 0 ELSE Len(text)

count_message_tokens(msg) ==
    IF msg.content.kind = "str" THEN count_tokens(msg.content.text)
    ELSE SumSeq([i \in 1..Len(msg.content.parts) |->
                    IF msg.content.parts[i].type = "text"
                    THEN count_tokens(msg.content.parts[i].text) ELSE 0])

count_all_tokens(messages) ==
    SumSeq([i \in 1..Len(messages) |-> count_message_tokens(messages[i])])

\* ---------------------------------------------- Conversation Segmenter

\* mutant: the first system message is left in the conversation
extract_base_system_prompt_none(messages) == <<(<<>>), messages>>

\* <<base_system_messages, remaining_messages>>
extract_base_system_prompt(messages) ==
    IF messages = <<>> THEN <<(<<>>), (<<>>)>>
    ELSE IF messages[1].role = "system" THEN <<(<<messages[1]>>), Tail(messages)>>
    ELSE <<(<<>>), messages>>

\* mutant: the kept messages are taken from the head of the list
split_conversation_head(messages, keep_count) ==
    IF Len(messages) <= keep_count THEN <<(<<>>), messages>>
    ELSE <<Drop(messages, keep_count), Take(messages, keep_count)>>

\* mutant: the message at the split index is in neither segment
split_conversation_loses_message(messages, keep_count) ==
    IF Len(messages) <= keep_count THEN <<(<<>>), messages>>
    ELSE LET split_idx == Len(messages) - keep_count
         IN <<Take(messages, split_idx), Drop(messages, split_idx + 1)>>

\* <<old, recent>>
split_conversation(messages, keep_count) ==
    IF Len(messages) <= keep_count THEN <<(<<>>), messages>>
    ELSE LET split_idx == Len(messages) - keep_count
         IN <<Take(messages, split_idx), Drop(messages, split_idx)>>

\* mutant: the last resort keeps the whole list beside the old segment
find_dynamic_split_last_resort_keeps_all(messages, min_keep) ==
    IF Len(messages) > min_keep
    THEN <<SliceToMinus(messages, min_keep), messages>>
    ELSE <<(<<>>), messages>>

\* the last resort of find_dynamic_split, after its loop
find_dynamic_split_last_resort(messages, min_keep) ==
    IF Len(messages) > min_keep
    THEN <<SliceToMinus(messages, min_keep), SliceFromMinus(messages, min_keep)>>
    ELSE <<(<<>>), messages>>

\* ------------------------------------------- Embedded-Result Extractor

\* further lexemes the detector and the extractor know
KEY_RESULTS_ESC == "{\\\"results\\\": "
KEY_ERROR_HTML == "{&quot;error&quot;: "
QUOTE == "\""
QUOTE_HTML == "&quot;"
LEAD_QUOTE_HTML == "\"&quot;"
BLANK == " "
NEWLINE == "\n"

\* html.unescape, lexeme by lexeme
HtmlUnescapeLexeme(lx) ==
    CASE lx = KEY_RESULTS_HTML -> KEY_RESULTS
      [] lx = KEY_ERROR_HTML -> "{\"error\": "
      [] lx = ROW1_HTML -> ROW1
      [] lx = ROW2_HTML -> ROW2
      [] lx = QUOTE_HTML -> QUOTE
      [] lx = LEAD_QUOTE_HTML -> "\"\""
      [] OTHER -> lx

HtmlUnescape(text) == [i \in 1..Len(text) |-> HtmlUnescapeLexeme(text[i])]

\* .replace('\\"', '"').replace("\\n", "\n"), lexeme by lexeme
UnescapeBackslashLexeme(lx) == IF lx = KEY_RESULTS_ESC THEN KEY_RESULTS ELSE lx

IsBlank(lx) == lx \in {BLANK, NEWLINE}

\* number of characters of a lexeme, and of the lexemes before position i
CharLen(lx) == IF lx = DEEP_ARRAY THEN 2 * 1000 ELSE Len(lx)
CharsBefore(text, i) == SumSeq([j \in 1..(i - 1) |-> CharLen(text[j])])

\* content[:1000]
ScanWindow == 1000
InWindow(text, i) == CharsBefore(text, i) + CharLen(text[i]) <= ScanWindow

\* lexemes in which one of the patterns searched anywhere occurs:
\* &quot;results&quot;, &quot;error&quot;, \"results\"
AnywhereSignatures == {KEY_RESULTS_HTML, KEY_ERROR_HTML, KEY_RESULTS_ESC}
\* lexemes that open the content for the anchored patterns {"results and "&quot;
StartSignatures == {KEY_RESULTS, LEAD_QUOTE_HTML}
StartsWithBrace(lx) ==
    lx \in {KEY_RESULTS, KEY_RESULTS_HTML, KEY_RESULTS_ESC, KEY_ERROR_HTML,
            ROW1, ROW2, ROW1_HTML, ROW2_HTML, OBJ_ITEMS, ROW_A, BAD_ROW}
EndsWithBrace(lx) == lx \in {ROW1, ROW2, ROW1_HTML, ROW2_HTML, RBRACE, ROW_A, TAIL_N}

\* index of the first lexeme that is not whitespace (Len + 1 if none)
FirstNonBlank(text) ==
    IF \E i \in 1..Len(text) : ~IsBlank(text[i])
    THEN CHOOSE i \in 1..Len(text) :
             ~IsBlank(text[i]) /\ \A j \in 1..(i - 1) : IsBlank(text[j])
    ELSE Len(text) + 1

\* has_embedded_tool_result applied to a string
has_embedded_in_text(text) ==
    LET f == FirstNonBlank(text)
    IN \/ \E i \in 1..Len(text) : InWindow(text, i) /\ text[i] \in AnywhereSignatures
       \/ f <= Len(text) /\ InWindow(text, f) /\ text[f] \in StartSignatures
       \/ /\ f + 1 <= Len(text)
          /\ InWindow(text, f + 1)
          /\ text[f] = LB
          /\ StartsWithBrace(text[f + 1])

\* re.search on content[:1000] of a non-empty list raises TypeError
has_embedded_tool_result_raises(content) ==
    content.kind = "list" /\ content.parts # <<>>

has_embedded_tool_result(content) ==
    IF content.kind = "str" THEN content.text # <<>> /\ has_embedded_in_text(content.text)
    ELSE FALSE

\* html.unescape, then the replacement of \" and \n
DecodeText(text) ==
    [i \in 1..Len(text) |-> UnescapeBackslashLexeme(HtmlUnescapeLexeme(text[i]))]

\* the failure phrase, matched with re.IGNORECASE
IsFailurePhrase(lx) ==
    lx \in {QEF, "query execution failed", "QUERY EXECUTION FAILED"}

\* lexemes that are one JSON value, and those among them that are mappings
JsonValues == {ROW1, ROW2, ROW_A, "1", "\"text\""}
JsonMappings == {ROW1, ROW2, ROW_A}
\* lexemes that open a mapping up to the array it holds, and those that
\* close the mapping after that array
ObjectOpens == {OBJ_ITEMS}
ObjectTails == {TAIL_N}

\* index of the first ] of a text (Len + 1 if none)
FirstClose(text) ==
    IF \E i \in 1..Len(text) : text[i] = RB
    THEN CHOOSE i \in 1..Len(text) : text[i] = RB /\ \A j \in 1..(i - 1) : text[j] # RB
    ELSE Len(text) + 1

\* json.loads of the elements between the brackets of an array:
\* <<ok, elements>>, each element the lexemes of one JSON value
RECURSIVE ParseElements(_, _)
ParseElements(inner, needValue) ==
    LET after(n) ==
            LET rest == Drop(inner, n)
                k == FirstNonBlank(rest)
            IN IF k > Len(rest) THEN <<TRUE, <<Take(inner, n)>>>>
               ELSE IF rest[k] = COMMA
               THEN LET more == ParseElements(Drop(rest, k), TRUE)
                    IN <<more[1], <<Take(inner, n)>> \o more[2]>>
               ELSE <<FALSE, <<>>>>
        close == FirstClose(inner)
    IN IF inner = <<>> THEN <<~needValue, <<>>>>
       ELSE IF IsBlank(Head(inner)) THEN ParseElements(Tail(inner), needValue)
       ELSE IF Head(inner) \in JsonValues THEN after(1)
       ELSE IF /\ Head(inner) \in ObjectOpens
               /\ Len(inner) >= 2 /\ inner[2] = LB
               /\ close + 1 <= Len(inner)
               /\ inner[close + 1] \in ObjectTails
               /\ ParseElements(SubSeq(inner, 3, close - 1), FALSE)[1]
       THEN after(close + 1)
       ELSE <<FALSE, <<>>>>

ParseArray(inner) == ParseElements(inner, FALSE)

\* JSON text on which json.loads raises RecursionError, which is not a
\* json.JSONDecodeError
JsonOverflows == {DEEP_ARRAY}

\* json.loads of the elements gets as far as an element it overflows on
ReachesOverflow(inner) ==
    \E i \in 1..Len(inner) :
        /\ inner[i] \in JsonOverflows
        /\ \A j \in 1..(i - 1) : inner[j] \notin JsonOverflows
        /\ \/ i = 1
           \/ i > 2 /\ inner[i - 1] = COMMA /\ ParseArray(Take(inner, i - 2))[1]

\* isinstance(value, dict)
IsMapping(value) == value[1] \in JsonMappings \cup ObjectOpens

\* absent count and absent sample row
NoCount == -1
NoRow == <<"None">>

\* the first row with string values longer than 40 characters cut to 40 + "..."
\* (no value of the rows of this model is that long)
SampleRow(row) == row

\* where the lazy regex {"results": [ ... ]} matches: <<start, end>> or <<0, 0>>
ResultsMatch(decoded) ==
    LET opens == {i \in 1..Len(decoded) :
                     /\ decoded[i] = KEY_RESULTS
                     /\ i + 1 <= Len(decoded)
                     /\ decoded[i + 1] = LB
                     /\ \E j \in (i + 2)..(Len(decoded) - 1) :
                            decoded[j] = RB /\ decoded[j + 1] = RBRACE}
    IN IF opens = {} THEN <<0, 0>>
       ELSE LET i == CHOOSE a \in opens : \A b \in opens : a <= b
                closes == {j \in (i + 2)..(Len(decoded) - 1) :
                              decoded[j] = RB /\ decoded[j + 1] = RBRACE}
            IN <<i, CHOOSE a \in closes : \A b \in closes : a <= b>>

\* where the lazy regex [ { ... } ] matches: <<start, end>> or <<0, 0>>
ArrayMatch(decoded) ==
    LET closesAfter(i) == {j \in (i + 2)..Len(decoded) :
                              decoded[j] = RB /\ EndsWithBrace(decoded[j - 1])}
        opens == {i \in 1..Len(decoded) :
                     /\ decoded[i] = LB
                     /\ i + 1 <= Len(decoded)
                     /\ StartsWithBrace(decoded[i + 1])
                     /\ closesAfter(i) # {}}
    IN IF opens = {} THEN <<0, 0>>
       ELSE LET i == CHOOSE a \in opens : \A b \in opens : a <= b
            IN <<i, CHOOSE a \in closesAfter(i) : \A b \in closesAfter(i) : a <= b>>

\* mutant: every occurrence of the failure phrase counts as a failed call
ErrorCount_every_match(matches) == matches

\* len(error_matches) // 2
ErrorCount(matches) == matches \div 2

\* the info dict as extract_tool_result_info creates it
NoInfo == [has_results |-> FALSE, result_count |-> NoCount,
           sample_row |-> NoRow, has_error |-> FALSE, error_count |-> 0]

\* extract_tool_result_info raises: re.findall on a list (TypeError), or
\* json.loads on the matched text overflows (RecursionError)
extract_tool_result_info_raises(content) ==
    IF content.kind = "list" THEN content.parts # <<>>
    ELSE LET decoded == DecodeText(content.text)
             rm == ResultsMatch(decoded)
             results_inner == SubSeq(decoded, rm[1] + 2, rm[2] - 1)
             am == ArrayMatch(decoded)
             array_inner == SubSeq(decoded, am[1] + 1, am[2] - 1)
         IN /\ \E i \in 1..Len(decoded) : decoded[i] \in JsonOverflows
            /\ \/ rm[1] > 0 /\ ReachesOverflow(results_inner)
               \/ /\ ~(rm[1] > 0 /\ ParseArray(results_inner)[1])
                  /\ am[1] > 0
                  /\ ReachesOverflow(array_inner)

extract_tool_result_info(content) ==
    LET empty == NoInfo
        decoded == DecodeText(content.text)
        error_matches == Cardinality({i \in 1..Len(decoded) : IsFailurePhrase(decoded[i])})
        withError == [empty EXCEPT !.has_error = error_matches > 0,
                                   !.error_count = ErrorCount(error_matches)]
        parsed(elements) ==
            [withError EXCEPT !.has_results = TRUE,
                              !.result_count = Len(elements),
                              !.sample_row = IF elements # <<>> /\ IsMapping(elements[1])
                                             THEN SampleRow(elements[1]) ELSE NoRow]
        rm == ResultsMatch(decoded)
        rp == ParseArray(SubSeq(decoded, rm[1] + 2, rm[2] - 1))
        am == ArrayMatch(decoded)
        ap == ParseArray(SubSeq(decoded, am[1] + 1, am[2] - 1))
    IN IF content.text = <<>> THEN empty
       ELSE IF rm[1] > 0 /\ rp[1] THEN parsed(rp[2])
       ELSE IF am[1] > 0 /\ ap[1] /\ ap[2] # <<>> THEN parsed(ap[2])
       ELSE IF has_embedded_tool_result(content)
       THEN [withError EXCEPT !.has_results = TRUE]
       ELSE withError

\* ----------------------------------------------------- Result Compactor

\* separator.join(items), each item and the result a sequence of lexemes
RECURSIVE JoinWith(_, _)
JoinWith(items, separator) ==
    IF items = <<>> THEN <<>>
    ELSE IF Len(items) = 1 THEN items[1]
    ELSE items[1] \o <<separator>> \o JoinWith(Tail(items), separator)

TextChars(text) == SumSeq([i \in 1..Len(text) |-> CharLen(text[i])])

\* json.dumps(sample_row, ensure_ascii=False): the rows of this model are
\* written, lexeme by lexeme, as json.dumps renders them
JsonDumps(row) == row

\* the longest prefix of whole lexemes within n characters
RECURSIVE TruncateChars(_, _)
TruncateChars(text, n) ==
    IF text = <<>> \/ CharLen(Head(text)) > n THEN <<>>
    ELSE <<Head(text)>> \o TruncateChars(Tail(text), n - CharLen(Head(text)))

SampleCap == 120
CapSample(sample_str) ==
    IF TextChars(sample_str) > SampleCap
    THEN TruncateChars(sample_str, SampleCap) \o <<"...}">> ELSE sample_str

\* the fragments of the digest, in order
DigestParts(info) ==
    (IF info.has_error /\ info.error_count > 0
     THEN << <<ToString(info.error_count) \o " failed queries">> >> ELSE <<>>)
    \o (IF info.result_count # NoCount
        THEN << <<ToString(info.result_count) \o " rows">> >>
             \o (IF info.sample_row # NoRow
                 THEN <<CapSample(JsonDumps(info.sample_row))>> ELSE <<>>)
        ELSE IF info.has_results THEN << <<"results returned">> >> ELSE <<>>)

\* result_desc
ResultDesc(content) ==
    LET parts == DigestParts(extract_tool_result_info(content))
    IN IF parts # <<>>
       THEN <<"[Tool: ">> \o JoinWith(parts, " | ") \o <<"]">>
       ELSE <<"[Tool: ", ToString(TextChars(content.text)) \o " chars", "]">>

IsQuote(lx) == lx \in {QUOTE, "'"}

\* index of the lexeme whose closing brace starts the last }" , }' or }]" of
\* the decoded text (0 if there is none)
LastJsonEnd(decoded) ==
    LET ends == {i \in 1..Len(decoded) :
                    /\ EndsWithBrace(decoded[i])
                    /\ \/ i + 1 <= Len(decoded) /\ IsQuote(decoded[i + 1])
                       \/ /\ i + 2 <= Len(decoded)
                          /\ decoded[i + 1] = RB
                          /\ decoded[i + 2] = QUOTE}
    IN IF ends = {} THEN 0 ELSE CHOOSE a \in ends : \A b \in ends : a >= b

RECURSIVE StripLeading(_)
StripLeading(text) ==
    IF text # <<>> /\ (IsBlank(Head(text)) \/ IsQuote(Head(text)))
    THEN StripLeading(Tail(text)) ELSE text

RECURSIVE StripTrailingBlanks(_)
StripTrailingBlanks(text) ==
    IF text # <<>> /\ IsBlank(text[Len(text)])
    THEN StripTrailingBlanks(SubSeq(text, 1, Len(text) - 1)) ELSE text

CommentaryMin == 30
CommentaryMax == 500

\* the commentary kept after the last end-of-JSON marker (<<>> if none is kept)
Commentary(content) ==
    LET decoded == HtmlUnescape(content.text)
        e == LastJsonEnd(decoded)
        last_json_end == CharsBefore(decoded, e) + CharLen(decoded[e]) - 1
        cleaned == StripLeading(StripTrailingBlanks(Drop(decoded, e + 1)))
    IN IF e = 0 THEN <<>>
       ELSE IF last_json_end > 0 /\ TextChars(cleaned) > CommentaryMin
       THEN IF TextChars(cleaned) > CommentaryMax
            THEN TruncateChars(cleaned, CommentaryMax) \o <<"...">>
            ELSE cleaned
       ELSE <<>>

compact_assistant_with_tool_result(msg) ==
    IF msg.content.text = <<>> THEN msg
    ELSE LET result_desc == ResultDesc(msg.content)
             cleaned == Commentary(msg.content)
         IN IF cleaned # <<>>
            THEN Message("assistant", StrContent(result_desc \o <<"\n\n">> \o cleaned))
            ELSE Message("assistant", StrContent(result_desc))

\* ------------------------------------------- Summarization Orchestrator

\* lexemes in which a ] occurs, and what re.match keeps of them: up to the ]
HasCloseBracket(lx) == lx \in {"]", RB}
CutAfterBracket(lx) == lx

\* group 1 of re.match(r"(\[Tool:[^\]]+\])", compacted_content)
ToolMatch(text) ==
    LET closes == {i \in 2..Len(text) : HasCloseBracket(text[i])}
        k == CHOOSE a \in closes : \A b \in closes : a <= b
    IN IF Len(text) = 0 \/ text[1] # "[Tool: " \/ closes = {} THEN <<>>
       ELSE SubSeq(text, 1, k - 1) \o <<CutAfterBracket(text[k])>>

IsCompacted(msg, valves) ==
    /\ msg.role = "assistant"
    /\ has_embedded_tool_result(msg.content)
    /\ count_tokens(msg.content.text) > valves.tool_result_token_threshold

\* the message of the old segment that makes prepare_for_summarization raise
PrepareRaises(messages, valves) ==
    \E i \in 1..Len(messages) :
        /\ messages[i].role = "assistant"
        /\ \/ has_embedded_tool_result_raises(messages[i].content)
           \/ /\ IsCompacted(messages[i], valves)
              /\ extract_tool_result_info_raises(messages[i].content)

\* <<prepared, tool_summaries>>
RECURSIVE prepare_for_summarization(_, _)
prepare_for_summarization(messages, valves) ==
    IF messages = <<>> THEN <<(<<>>), (<<>>)>>
    ELSE LET msg == Head(messages)
             rest == prepare_for_summarization(Tail(messages), valves)
             compacted == compact_assistant_with_tool_result(msg)
             tool_match == ToolMatch(compacted.content.text)
         IN IF msg.role = "system" THEN rest
            ELSE IF msg.role = "assistant"
            THEN IF IsCompacted(msg, valves)
                 THEN <<(<<compacted>>) \o rest[1],
                        (IF tool_match # <<>> THEN <<tool_match>> ELSE <<>>) \o rest[2]>>
                 ELSE <<(<<msg>>) \o rest[1], rest[2]>>
            ELSE IF msg.role = "user" THEN <<(<<msg>>) \o rest[1], rest[2]>>
            ELSE rest

\* isinstance(content, str) and content.strip()
HasPromptText(msg) ==
    msg.content.kind = "str" /\ \E i \in 1..Len(msg.content.text) : ~IsBlank(msg.content.text[i])

RolePrefix(role) ==
    CASE role = "system" -> "SYSTEM: "
      [] role = "user" -> "USER: "
      [] role = "assistant" -> "ASSISTANT: "
      [] OTHER -> "UNKNOWN: "

\* the prompt, <<>> when no message contributes
build_summarization_prompt(messages) ==
    LET idx == {i \in 1..Len(messages) : HasPromptText(messages[i])}
        kept == [k \in 1..Cardinality(idx) |->
                    LET i == CHOOSE a \in idx : Cardinality({b \in idx : b <= a}) = k
                    IN <<RolePrefix(messages[i].role)>> \o messages[i].content.text]
    IN IF idx = {} THEN <<>>
       ELSE <<"Summarize the following conversation concisely, ...\n\n">>
            \o JoinWith(kept, "\n\n")
            \o <<"\n\nProvide a clear, factual summary in 2-3 paragraphs.">>

\* what the summarization endpoint does with the one call it receives
Outcomes == {"text", "empty", "absent", "error", "timeout"}
IsFailure(outcome) == outcome \in {"error", "timeout"}
NarrativeText == <<"The user asked about the table; it has two rows.">>
\* result.get("response", "")
ResponseText(outcome) == IF outcome = "text" THEN NarrativeText ELSE <<>>

\* ------------------------------------------------ Message Reconstructor

FALLBACK_NOTE == "[Note: Earlier conversation was truncated due to context limits. Some context may be missing.]"
TOOLS_HEADER == "\n\n[Tool calls from earlier in conversation]\n"
SUMMARY_HEADER == "[Previous conversation summary]\n"
SUMMARY_FOOTER == "\n[End of summary - recent messages follow]"

ToolsBlock(tool_summaries) ==
    IF tool_summaries = <<>> THEN <<>>
    ELSE <<TOOLS_HEADER>>
         \o JoinWith([i \in 1..Len(tool_summaries) |-> <<"- ">> \o tool_summaries[i]], "\n")

fallback_note(tool_summaries) ==
    Message("system", StrContent(<<FALLBACK_NOTE>> \o ToolsBlock(tool_summaries)))

\* mutant: the tool summaries come after the footer
summary_message_tools_last(summary, tool_summaries) ==
    Message("system", StrContent(<<SUMMARY_HEADER>> \o summary \o <<SUMMARY_FOOTER>>
                                 \o ToolsBlock(tool_summaries)))

summary_message(summary, tool_summaries) ==
    Message("system", StrContent(<<SUMMARY_HEADER>> \o summary \o ToolsBlock(tool_summaries)
                                 \o <<SUMMARY_FOOTER>>))

\* mutant: after a failed call the note leaves the tool summaries out
Reconstruct_bare_on_failure(sysMsgs, recent, tool_summaries, failed, summary) ==
    IF failed THEN sysMsgs \o <<fallback_note(<<>>)>> \o recent
    ELSE IF summary = <<>> THEN sysMsgs \o <<fallback_note(tool_summaries)>> \o recent
    ELSE sysMsgs \o <<summary_message(summary, tool_summaries)>> \o recent

\* mutant: the synthesized message is put after the recent messages
Reconstruct_note_last(sysMsgs, recent, tool_summaries, failed, summary) ==
    IF failed \/ summary = <<>>
    THEN sysMsgs \o recent \o <<fallback_note(tool_summaries)>>
    ELSE sysMsgs \o recent \o <<summary_message(summary, tool_summaries)>>

\* Step 6 of inlet: new_messages
Reconstruct(sysMsgs, recent, tool_summaries, failed, summary) ==
    IF failed \/ summary = <<>>
    THEN sysMsgs \o <<fallback_note(tool_summaries)>> \o recent
    ELSE sysMsgs \o <<summary_message(summary, tool_summaries)>> \o recent

\* ------------------------------------------------------------ the filter

VARIABLES
    input_messages,        \* the message list the caller put in the request
    body_messages,         \* body["messages"], as the caller sees it
    valves,                \* self.valves
    body_model,            \* body.get("model", "")
    call_model,            \* the model named in the last POST ("none": no POST)
    info,                  \* what extract_tool_result_info returned last
    has_emitter,           \* whether __event_emitter__ is supplied
    pc,                    \* where the invocation of inlet stands
    token_count,
    system_messages, conversation,
    keep_count,            \* of find_dynamic_split
    old_messages, recent_messages,
    prepared_messages, tool_summaries,
    outcome,               \* what the summarization call did ("none": not made)
    summary, summarization_failed,
    events,                \* the status events emitted, in order
    calls,                 \* number of POSTs to the summarization endpoint
    result,                \* "none", "returned" or "raised"
    prev,                  \* what the caller got for the same request before
    other                  \* a second invocation of inlet on the same instance

vars == <<input_messages, body_messages, valves, body_model, call_model, info,
          has_emitter, pc, token_count,
          system_messages, conversation, keep_count, old_messages, recent_messages,
          prepared_messages, tool_summaries, outcome, summary, summarization_failed,
          events, calls, result, prev, other>>

\* the locals of the second invocation; "idle": there is none
NoOther ==
    [pc |-> "idle", input_messages |-> <<>>, body_messages |-> <<>>,
     system_messages |-> <<>>, old_messages |-> <<>>, recent_messages |-> <<>>,
     prepared_messages |-> <<>>, tool_summaries |-> <<>>,
     outcome |-> "none", result |-> "none", met |-> FALSE]

NoPrev == [outcome |-> "none", messages |-> <<>>, result |-> "none"]

\* configurations: thresholds in tokens of this model
TokenThresholds == {2, 8}
ToolResultThresholds == {5}

ValvesOver(thresholds, keeps, min_keeps, summarizers, tool_thresholds) ==
    [token_threshold : thresholds,
     messages_to_keep : keeps,
     min_messages_to_keep : min_keeps,
     summarizer_model : summarizers,
     tool_result_token_threshold : tool_thresholds]

\* the default summarizer_model ("": summarize with the model of the request)
ValvesSet ==
    ValvesOver(TokenThresholds, 0..MaxKeep, 0..MaxMinKeep, {""}, ToolResultThresholds)

\* the model identifier of a request
ChatModel == "chat-model"

StatusEvent(description, args, done) ==
    [description |-> description, args |-> args, done |-> done]

Emit(event) == IF has_emitter THEN Append(events, event) ELSE events

\* the locals of inlet as a request enters
Enter(requests, models, configurations, emitters) ==
    /\ input_messages \in requests
    /\ body_messages = input_messages
    /\ body_model \in models
    /\ call_model = "none"
    /\ info = NoInfo
    /\ valves \in configurations
    /\ has_emitter \in emitters
    /\ pc = "start"
    /\ token_count = 0
    /\ system_messages = <<>>
    /\ conversation = <<>>
    /\ keep_count = 0
    /\ old_messages = <<>>
    /\ recent_messages = <<>>
    /\ prepared_messages = <<>>
    /\ tool_summaries = <<>>
    /\ outcome = "none"
    /\ summary = <<>>
    /\ summarization_failed = FALSE
    /\ events = <<>>
    /\ calls = 0
    /\ result = "none"
    /\ prev = NoPrev

\* a request enters inlet
InitOver(requests, models, configurations, emitters) ==
    /\ Enter(requests, models, configurations, emitters)
    /\ other = NoOther

Init == InitOver(SeqsUpTo(MessageUniverse, MaxMsgs), {ChatModel}, ValvesSet, BOOLEAN)

\* inlet, to the return of the request that needs no summarization
PassThrough ==
    /\ pc = "start"
    /\ \/ body_messages = <<>>
       \/ count_all_tokens(body_messages) < valves.token_threshold
    /\ token_count' = count_all_tokens(body_messages)
    /\ result' = "returned"
    /\ pc' = "done"
    /\ UNCHANGED <<other, info, body_model, call_model, prev, input_messages, body_messages, valves, has_emitter, system_messages,
                   conversation, keep_count, old_messages, recent_messages,
                   prepared_messages, tool_summaries, outcome, summary,
                   summarization_failed, events, calls>>

\* mutant: the threshold comparison is off by one
Trigger_off_by_one ==
    /\ pc = "start"
    /\ body_messages # <<>>
    /\ count_all_tokens(body_messages) + 1 >= valves.token_threshold
    /\ token_count' = count_all_tokens(body_messages)
    /\ events' = Emit(StatusEvent("Summarizing conversation ({token_count:,} tokens)...",
                                  <<token_count'>>, FALSE))
    /\ pc' = "extract"
    /\ UNCHANGED <<other, info, body_model, call_model, prev, input_messages, body_messages, valves, has_emitter,
                   system_messages, conversation, keep_count, old_messages,
                   recent_messages, prepared_messages, tool_summaries, outcome, summary,
                   summarization_failed, calls, result>>

\* inlet, to the first status event
Trigger ==
    /\ pc = "start"
    /\ body_messages # <<>>
    /\ count_all_tokens(body_messages) >= valves.token_threshold
    /\ token_count' = count_all_tokens(body_messages)
    /\ events' = Emit(StatusEvent("Summarizing conversation ({token_count:,} tokens)...",
                                  <<token_count'>>, FALSE))
    /\ pc' = "extract"
    /\ UNCHANGED <<other, info, body_model, call_model, prev, input_messages, body_messages, valves, has_emitter, system_messages,
                   conversation, keep_count, old_messages, recent_messages,
                   prepared_messages, tool_summaries, outcome, summary,
                   summarization_failed, calls, result>>

\* Step 1, and the entry of find_dynamic_split
ExtractBase ==
    /\ pc = "extract"
    /\ system_messages' = extract_base_system_prompt(body_messages)[1]
    /\ conversation' = extract_base_system_prompt(body_messages)[2]
    /\ keep_count' = valves.messages_to_keep
    /\ pc' = "split"
    /\ UNCHANGED <<other, info, body_model, call_model, prev, input_messages, body_messages, valves, has_emitter, token_count,
                   old_messages, recent_messages, prepared_messages, tool_summaries,
                   outcome, summary, summarization_failed, events, calls, result>>

\* mutant: the loop goes on below min_keep, down to keep_count 0
SplitFound_below_min_keep ==
    /\ pc = "split"
    /\ keep_count >= 0
    /\ split_conversation(conversation, keep_count)[1] # <<>>
    /\ old_messages' = split_conversation(conversation, keep_count)[1]
    /\ recent_messages' = split_conversation(conversation, keep_count)[2]
    /\ pc' = "split_done"
    /\ UNCHANGED <<other, info, body_model, call_model, prev, input_messages, body_messages, valves, has_emitter, token_count,
                   system_messages, conversation, keep_count, prepared_messages,
                   tool_summaries, outcome, summary, summarization_failed, events,
                   calls, result>>

\* find_dynamic_split: an iteration that finds something to summarize
SplitFound ==
    /\ pc = "split"
    /\ keep_count >= valves.min_messages_to_keep
    /\ split_conversation(conversation, keep_count)[1] # <<>>
    /\ old_messages' = split_conversation(conversation, keep_count)[1]
    /\ recent_messages' = split_conversation(conversation, keep_count)[2]
    /\ pc' = "split_done"
    /\ UNCHANGED <<other, info, body_model, call_model, prev, input_messages, body_messages, valves, has_emitter, token_count,
                   system_messages, conversation, keep_count, prepared_messages,
                   tool_summaries, outcome, summary, summarization_failed, events,
                   calls, result>>

\* find_dynamic_split: an iteration that finds nothing and halves keep_count
SplitHalve ==
    /\ pc = "split"
    /\ keep_count >= valves.min_messages_to_keep
    /\ split_conversation(conversation, keep_count)[1] = <<>>
    /\ keep_count' = keep_count \div 2
    /\ UNCHANGED <<other, info, body_model, call_model, prev, input_messages, body_messages, valves, has_emitter, pc, token_count,
                   system_messages, conversation, old_messages, recent_messages,
                   prepared_messages, tool_summaries, outcome, summary,
                   summarization_failed, events, calls, result>>

\* find_dynamic_split: after the loop
SplitLastResort ==
    /\ pc = "split"
    /\ keep_count < valves.min_messages_to_keep
    /\ old_messages' =
           find_dynamic_split_last_resort(conversation, valves.min_messages_to_keep)[1]
    /\ recent_messages' =
           find_dynamic_split_last_resort(conversation, valves.min_messages_to_keep)[2]
    /\ pc' = "split_done"
    /\ UNCHANGED <<other, info, body_model, call_model, prev, input_messages, body_messages, valves, has_emitter, token_count,
                   system_messages, conversation, keep_count, prepared_messages,
                   tool_summaries, outcome, summary, summarization_failed, events,
                   calls, result>>

\* mutant: the request is returned without the status event
NothingToSummarize_silent ==
    /\ pc = "split_done"
    /\ old_messages = <<>>
    /\ result' = "returned"
    /\ pc' = "done"
    /\ UNCHANGED <<other, info, body_model, call_model, prev, input_messages, body_messages, valves, has_emitter, token_count,
                   system_messages, conversation, keep_count, old_messages,
                   recent_messages, prepared_messages, tool_summaries, outcome, summary,
                   summarization_failed, events, calls>>

\* nothing to summarize: the status event and the return of the request
NothingToSummarize ==
    /\ pc = "split_done"
    /\ old_messages = <<>>
    /\ events' = Emit(StatusEvent("Context too large to summarize effectively", <<>>, TRUE))
    /\ result' = "returned"
    /\ pc' = "done"
    /\ UNCHANGED <<other, info, body_model, call_model, prev, input_messages, body_messages, valves, has_emitter, token_count,
                   system_messages, conversation, keep_count, old_messages,
                   recent_messages, prepared_messages, tool_summaries, outcome, summary,
                   summarization_failed, calls>>

\* Step 3 on an old segment that makes has_embedded_tool_result raise: the
\* TypeError leaves inlet
PrepareRaise ==
    /\ pc = "split_done"
    /\ old_messages # <<>>
    /\ PrepareRaises(old_messages, valves)
    /\ result' = "raised"
    /\ pc' = "done"
    /\ UNCHANGED <<other, info, body_model, call_model, prev, input_messages, body_messages, valves, has_emitter, token_count,
                   system_messages, conversation, keep_count, old_messages,
                   recent_messages, prepared_messages, tool_summaries, outcome, summary,
                   summarization_failed, events, calls>>

\* mutant: the compactor writes the digest into the message it was given
Prepare_in_place ==
    /\ pc = "split_done"
    /\ old_messages # <<>>
    /\ ~PrepareRaises(old_messages, valves)
    /\ prepared_messages' = prepare_for_summarization(old_messages, valves)[1]
    /\ tool_summaries' = prepare_for_summarization(old_messages, valves)[2]
    /\ input_messages' =
           [i \in 1..Len(input_messages) |->
               IF /\ i > Len(system_messages)
                  /\ i <= Len(system_messages) + Len(old_messages)
                  /\ IsCompacted(input_messages[i], valves)
               THEN compact_assistant_with_tool_result(input_messages[i])
               ELSE input_messages[i]]
    /\ pc' = "summarize"
    /\ UNCHANGED <<other, info, body_model, call_model, prev, body_messages, valves, has_emitter, token_count,
                   system_messages, conversation, keep_count, old_messages,
                   recent_messages, outcome, summary, summarization_failed, events,
                   calls, result>>

\* mutant: the tool summaries are kept in a list of the filter instance, which
\* the invocations share
Prepare_on_instance ==
    /\ pc = "split_done"
    /\ old_messages # <<>>
    /\ ~PrepareRaises(old_messages, valves)
    /\ prepared_messages' = prepare_for_summarization(old_messages, valves)[1]
    /\ tool_summaries' =
           other.tool_summaries \o prepare_for_summarization(old_messages, valves)[2]
    /\ pc' = "summarize"
    /\ UNCHANGED <<other, info, body_model, call_model, prev, input_messages, body_messages, valves, has_emitter, token_count,
                   system_messages, conversation, keep_count, old_messages,
                   recent_messages, outcome, summary, summarization_failed, events,
                   calls, result>>

\* Steps 3 and 4
Prepare ==
    /\ pc = "split_done"
    /\ old_messages # <<>>
    /\ ~PrepareRaises(old_messages, valves)
    /\ prepared_messages' = prepare_for_summarization(old_messages, valves)[1]
    /\ tool_summaries' = prepare_for_summarization(old_messages, valves)[2]
    /\ pc' = "summarize"
    /\ UNCHANGED <<other, info, body_model, call_model, prev, input_messages, body_messages, valves, has_emitter, token_count,
                   system_messages, conversation, keep_count, old_messages,
                   recent_messages, outcome, summary, summarization_failed, events,
                   calls, result>>

\* mutant: the model of the request is sent whatever summarizer_model says
model_for_summarization_of_request == body_model

\* Step 4: the model named in the summarization call
model_for_summarization ==
    IF valves.summarizer_model # "" THEN valves.summarizer_model ELSE body_model

\* Step 5 with an empty prompt: summarize_messages returns "" without a call
SummarizeNoPrompt ==
    /\ pc = "summarize"
    /\ build_summarization_prompt(prepared_messages) = <<>>
    /\ summary' = <<>>
    /\ pc' = "reconstruct"
    /\ UNCHANGED <<other, info, body_model, call_model, prev, input_messages, body_messages, valves, has_emitter, token_count,
                   system_messages, conversation, keep_count, old_messages,
                   recent_messages, prepared_messages, tool_summaries, outcome,
                   summarization_failed, events, calls, result>>

\* Step 5: the call answers (with text, with "" or without the field)
SummarizeResponds ==
    /\ pc = "summarize"
    /\ build_summarization_prompt(prepared_messages) # <<>>
    /\ \E o \in Outcomes :
           /\ ~IsFailure(o)
           /\ outcome' = o
           /\ summary' = ResponseText(o)
    /\ calls' = calls + 1
    /\ call_model' = model_for_summarization
    /\ pc' = "reconstruct"
    /\ UNCHANGED <<other, info, body_model, prev, input_messages, body_messages, valves, has_emitter, token_count,
                   system_messages, conversation, keep_count, old_messages,
                   recent_messages, prepared_messages, tool_summaries,
                   summarization_failed, events, result>>

\* mutant: the handler catches the transport error but not the timeout
SummarizeFails_timeout_escapes ==
    /\ pc = "summarize"
    /\ build_summarization_prompt(prepared_messages) # <<>>
    /\ \E o \in Outcomes :
           /\ IsFailure(o)
           /\ outcome' = o
           /\ IF o = "timeout"
              THEN /\ result' = "raised"
                   /\ pc' = "done"
                   /\ UNCHANGED <<summarization_failed, events>>
              ELSE /\ summarization_failed' = TRUE
                   /\ events' = Emit(StatusEvent(
                          "Summarization failed, truncating older messages", <<>>, FALSE))
                   /\ pc' = "reconstruct"
                   /\ UNCHANGED result
    /\ calls' = calls + 1
    /\ call_model' = model_for_summarization
    /\ UNCHANGED <<other, info, body_model, prev, input_messages, body_messages, valves, has_emitter, token_count,
                   system_messages, conversation, keep_count, old_messages,
                   recent_messages, prepared_messages, tool_summaries, summary>>

\* mutant: a call that raised is made once more before the fallback
SummarizeFails_retried ==
    /\ pc = "summarize"
    /\ build_summarization_prompt(prepared_messages) # <<>>
    /\ \E o \in Outcomes : IsFailure(o) /\ outcome' = o
    /\ calls' = calls + 2
    /\ call_model' = model_for_summarization
    /\ summarization_failed' = TRUE
    /\ events' = Emit(StatusEvent("Summarization failed, truncating older messages",
                                  <<>>, FALSE))
    /\ pc' = "reconstruct"
    /\ UNCHANGED <<other, info, body_model, prev, input_messages, body_messages, valves, has_emitter, token_count,
                   system_messages, conversation, keep_count, old_messages,
                   recent_messages, prepared_messages, tool_summaries, summary, result>>

\* Step 5: the call raises (a transport error, or the timeout expires)
SummarizeFails ==
    /\ pc = "summarize"
    /\ build_summarization_prompt(prepared_messages) # <<>>
    /\ \E o \in Outcomes : IsFailure(o) /\ outcome' = o
    /\ calls' = calls + 1
    /\ call_model' = model_for_summarization
    /\ summarization_failed' = TRUE
    /\ events' = Emit(StatusEvent("Summarization failed, truncating older messages",
                                  <<>>, FALSE))
    /\ pc' = "reconstruct"
    /\ UNCHANGED <<other, info, body_model, prev, input_messages, body_messages, valves, has_emitter, token_count,
                   system_messages, conversation, keep_count, old_messages,
                   recent_messages, prepared_messages, tool_summaries, summary, result>>

\* the description of the last status event
status_msg(failed) ==
    IF failed
    THEN "Truncated: {token_count:,} -> {new_token_count:,} tokens (summarization failed)"
    ELSE "Summarized: {token_count:,} -> {new_token_count:,} tokens"

\* Step 6, the last status event and the return of the request
Rebuild ==
    /\ pc = "reconstruct"
    /\ body_messages' = Reconstruct(system_messages, recent_messages, tool_summaries,
                                    summarization_failed, summary)
    /\ events' = Emit(StatusEvent(status_msg(summarization_failed),
                                  <<token_count, count_all_tokens(body_messages')>>, TRUE))
    /\ result' = "returned"
    /\ pc' = "done"
    /\ UNCHANGED <<other, info, body_model, call_model, prev, input_messages, valves, has_emitter, token_count, system_messages,
                   conversation, keep_count, old_messages, recent_messages,
                   prepared_messages, tool_summaries, outcome, summary,
                   summarization_failed, calls>>

Next ==
    \/ PassThrough
    \/ Trigger
    \/ ExtractBase
    \/ SplitFound
    \/ SplitHalve
    \/ SplitLastResort
    \/ NothingToSummarize
    \/ PrepareRaise
    \/ Prepare
    \/ SummarizeNoPrompt
    \/ SummarizeResponds
    \/ SummarizeFails
    \/ Rebuild

Spec == Init /\ [][Next]_vars

\* the caller sends the request of a summarized conversation again, in a new body
Resubmit ==
    /\ pc = "done"
    /\ result = "returned"
    /\ old_messages # <<>>
    /\ prev = NoPrev
    /\ prev' = [outcome |-> outcome, messages |-> body_messages, result |-> result]
    /\ body_messages' = input_messages
    /\ pc' = "start"
    /\ token_count' = 0
    /\ system_messages' = <<>>
    /\ conversation' = <<>>
    /\ keep_count' = 0
    /\ old_messages' = <<>>
    /\ recent_messages' = <<>>
    /\ prepared_messages' = <<>>
    /\ tool_summaries' = <<>>
    /\ outcome' = "none"
    /\ summary' = <<>>
    /\ summarization_failed' = FALSE
    /\ events' = <<>>
    /\ calls' = 0
    /\ call_model' = "none"
    /\ result' = "none"
    /\ UNCHANGED <<other, input_messages, body_model, info, valves, has_emitter>>

NextTwice == Next \/ Resubmit

\* the requests of a caller that supplies a status emitter
InitTwice == InitOver(SeqsUpTo(MessageUniverse, MaxMsgs), {ChatModel}, ValvesSet, {TRUE})

SpecTwice == InitTwice /\ [][NextTwice]_vars

\* requests with and without a model identifier, under configurations with
\* and without a summarizer_model
SummarizerModels == {"", "summarizer-model"}

InitModels ==
    InitOver(SeqsUpTo(MessageUniverse, MaxMsgs), {ChatModel, ""},
             ValvesOver({2}, 0..MaxKeep, 0..MaxMinKeep, SummarizerModels,
                        ToolResultThresholds),
             {FALSE})

SpecModels == InitModels /\ [][Next]_vars

\* conversations whose assistant messages carry tool results of several
\* shapes, under thresholds that compact them and thresholds that do not
PayloadUniverse == {m_rag, m_user, m_asst, m_tool, m_nest, m_parts}
PayloadThresholds == {5, 20}

InitPayloads ==
    InitOver(SeqsUpTo(PayloadUniverse, MaxMsgs), {ChatModel},
             ValvesOver({2}, {0, 1}, {0, 1}, {""}, PayloadThresholds),
             {FALSE})

SpecPayloads == InitPayloads /\ [][Next]_vars

\* compact_assistant_with_tool_result called on its own, as the tests call
\* it, on an assistant message whose content is some failure phrases, then a
\* payload, then a trailer after the closing quote of the payload
FailurePhrases == {QEF, "QUERY EXECUTION FAILED"}
NOTE_29 == "Two rows came back; both fit."
NOTE_30 == "Two rows came back; both match"
NOTE_31 == "Two rows came back; both match."
Payloads ==
    {<<>>,
     T_asst,
     T_tool,
     T_nest,
     <<KEY_RESULTS, LB, ROW1, RB, RBRACE>>,
     <<KEY_RESULTS, LB, "1", RB, RBRACE>>,
     <<KEY_RESULTS_HTML, LB, BAD_ROW, RB, RBRACE>>,
     <<KEY_RESULTS, LB, DEEP_ARRAY, RB, RBRACE>>,
     <<LB, ROW1, COMMA, ROW2, RB>>}
Trailers ==
    {<<>>,
     <<QUOTE, NOTE_29>>,
     <<QUOTE, NOTE_30>>,
     <<QUOTE, BLANK, NOTE_31, NEWLINE>>,
     <<QUOTE, BLANK, QUOTE, NOTE_30>>}
CompactContents ==
    {StrContent(phrases \o payload \o trailer) :
         phrases \in SeqsUpTo(FailurePhrases, MaxPhrases),
         payload \in Payloads, trailer \in Trailers}
    \cup {m_parts.content, ListContent(<<>>)}

InitCompact ==
    /\ old_messages \in {<<Message("assistant", content)>> : content \in CompactContents}
    /\ valves \in ValvesOver({2}, {0}, {0}, {""}, ToolResultThresholds)
    /\ pc = "compact"
    /\ input_messages = old_messages
    /\ body_messages = old_messages
    /\ conversation = old_messages
    /\ body_model = ChatModel
    /\ call_model = "none"
    /\ info = NoInfo
    /\ has_emitter = FALSE
    /\ token_count = count_all_tokens(old_messages)
    /\ system_messages = <<>>
    /\ keep_count = 0
    /\ recent_messages = <<>>
    /\ prepared_messages = <<>>
    /\ tool_summaries = <<>>
    /\ outcome = "none"
    /\ summary = <<>>
    /\ summarization_failed = FALSE
    /\ events = <<>>
    /\ calls = 0
    /\ result = "none"
    /\ prev = NoPrev
    /\ other = NoOther

\* the message compact_assistant_with_tool_result was called with
CompactArg == old_messages[1]
\* not content
EmptyContent(content) ==
    IF content.kind = "str" THEN content.text = <<>> ELSE content.parts = <<>>

\* compact_assistant_with_tool_result: a message without content is returned
CompactEmpty ==
    /\ pc = "compact"
    /\ EmptyContent(CompactArg.content)
    /\ prepared_messages' = <<CompactArg>>
    /\ result' = "returned"
    /\ pc' = "done"
    /\ UNCHANGED <<other, info, body_model, call_model, prev, input_messages, body_messages, valves,
                   has_emitter, token_count, system_messages, conversation, keep_count,
                   old_messages, recent_messages, tool_summaries, outcome, summary,
                   summarization_failed, events, calls>>

\* compact_assistant_with_tool_result: extract_tool_result_info raises
ExtractInfoRaise ==
    /\ pc = "compact"
    /\ ~EmptyContent(CompactArg.content)
    /\ extract_tool_result_info_raises(CompactArg.content)
    /\ result' = "raised"
    /\ pc' = "done"
    /\ UNCHANGED <<other, info, body_model, call_model, prev, input_messages, body_messages, valves,
                   has_emitter, token_count, system_messages, conversation, keep_count,
                   old_messages, recent_messages, prepared_messages, tool_summaries,
                   outcome, summary, summarization_failed, events, calls>>

\* compact_assistant_with_tool_result: extract_tool_result_info returns
ExtractInfo ==
    /\ pc = "compact"
    /\ ~EmptyContent(CompactArg.content)
    /\ ~extract_tool_result_info_raises(CompactArg.content)
    /\ info' = extract_tool_result_info(CompactArg.content)
    /\ pc' = "digest"
    /\ UNCHANGED <<other, body_model, call_model, prev, input_messages, body_messages, valves,
                   has_emitter, token_count, system_messages, conversation, keep_count,
                   old_messages, recent_messages, prepared_messages, tool_summaries,
                   outcome, summary, summarization_failed, events, calls, result>>

\* compact_assistant_with_tool_result: the digest, the commentary, the return
CompactDigest ==
    /\ pc = "digest"
    /\ prepared_messages' = <<compact_assistant_with_tool_result(CompactArg)>>
    /\ result' = "returned"
    /\ pc' = "done"
    /\ UNCHANGED <<other, info, body_model, call_model, prev, input_messages, body_messages, valves,
                   has_emitter, token_count, system_messages, conversation, keep_count,
                   old_messages, recent_messages, tool_summaries, outcome, summary,
                   summarization_failed, events, calls>>

NextCompact ==
    \/ CompactEmpty
    \/ ExtractInfoRaise
    \/ ExtractInfo
    \/ CompactDigest

SpecCompact == InitCompact /\ [][NextCompact]_vars

\* find_dynamic_split called on its own, as the tests call it: messages is
\* any list, initial_keep and min_keep any small integers
InitSplit ==
    /\ conversation \in SeqsUpTo(MessageUniverse, MaxMsgs)
    /\ input_messages = conversation
    /\ body_messages = conversation
    /\ body_model = ChatModel
    /\ call_model = "none"
    /\ info = NoInfo
    /\ valves \in ValvesOver({2}, (-1)..MaxKeep, (-1)..MaxMinKeep, {""},
                             ToolResultThresholds)
    /\ has_emitter = FALSE
    /\ pc = "split"
    /\ token_count = count_all_tokens(conversation)
    /\ system_messages = <<>>
    /\ keep_count = valves.messages_to_keep
    /\ old_messages = <<>>
    /\ recent_messages = <<>>
    /\ prepared_messages = <<>>
    /\ tool_summaries = <<>>
    /\ outcome = "none"
    /\ summary = <<>>
    /\ summarization_failed = FALSE
    /\ events = <<>>
    /\ calls = 0
    /\ result = "none"
    /\ prev = NoPrev
    /\ other = NoOther

NextSplit ==
    \/ SplitFound
    \/ SplitHalve
    \/ SplitLastResort

SpecSplit == InitSplit /\ [][NextSplit]_vars

\* the interpreter runs find_dynamic_split on: a step that can be taken is taken
FairSpecSplit == SpecSplit /\ WF_vars(NextSplit)

\* ------------------------------------- two invocations on one instance
\* The filter instance holds self.valves and self.encoding and nothing else;
\* everything inlet computes is in its locals and in the body it was given.
\* The second invocation runs from one suspension point (an awaited status
\* event, the awaited summarization call) to the next in one step.

\* find_dynamic_split as a function: <<returns, old, recent>>; it does not
\* return when the loop reaches a keep count that halving leaves unchanged
find_dynamic_split(messages, keep, least) ==
    LET lowest == IF keep < 0 THEN keep ELSE 0
        highest == IF keep < 0 THEN 0 ELSE keep
        from[k \in lowest..highest] ==
            IF k < least
            THEN <<TRUE, find_dynamic_split_last_resort(messages, least)[1],
                         find_dynamic_split_last_resort(messages, least)[2]>>
            ELSE IF split_conversation(messages, k)[1] # <<>>
            THEN <<TRUE, split_conversation(messages, k)[1],
                         split_conversation(messages, k)[2]>>
            ELSE IF k \div 2 = k
            THEN <<FALSE, <<>>, <<>>>>
            ELSE from[k \div 2]
    IN  from[keep]

\* the request of the second invocation enters inlet
OtherEnters(messages) ==
    [NoOther EXCEPT !.pc = "start", !.input_messages = messages,
                    !.body_messages = messages]

\* second invocation: the request that needs no summarization is returned
OtherPassThrough ==
    /\ other.pc = "start"
    /\ \/ other.body_messages = <<>>
       \/ count_all_tokens(other.body_messages) < valves.token_threshold
    /\ other' = [other EXCEPT !.pc = "done", !.result = "returned"]
    /\ UNCHANGED <<input_messages, body_messages, valves, body_model, call_model, info,
                   has_emitter, pc, token_count, system_messages, conversation,
                   keep_count, old_messages, recent_messages, prepared_messages,
                   tool_summaries, outcome, summary, summarization_failed, events,
                   calls, result, prev>>

\* second invocation: to the first status event, where it is suspended
OtherTrigger ==
    /\ other.pc = "start"
    /\ other.body_messages # <<>>
    /\ count_all_tokens(other.body_messages) >= valves.token_threshold
    /\ other' = [other EXCEPT !.pc = "emitted"]
    /\ UNCHANGED <<input_messages, body_messages, valves, body_model, call_model, info,
                   has_emitter, pc, token_count, system_messages, conversation,
                   keep_count, old_messages, recent_messages, prepared_messages,
                   tool_summaries, outcome, summary, summarization_failed, events,
                   calls, result, prev>>

\* second invocation: Steps 1 and 2, when find_dynamic_split returns
OtherSplits ==
    /\ other.pc = "emitted"
    /\ LET base == extract_base_system_prompt(other.body_messages)
           split == find_dynamic_split(base[2], valves.messages_to_keep,
                                       valves.min_messages_to_keep)
       IN  /\ split[1]
           /\ other' = [other EXCEPT !.pc = "split_done",
                                     !.system_messages = base[1],
                                     !.old_messages = split[2],
                                     !.recent_messages = split[3],
                                     !.met = pc \notin {"start", "done"}]
    /\ UNCHANGED <<input_messages, body_messages, valves, body_model, call_model, info,
                   has_emitter, pc, token_count, system_messages, conversation,
                   keep_count, old_messages, recent_messages, prepared_messages,
                   tool_summaries, outcome, summary, summarization_failed, events,
                   calls, result, prev>>

\* second invocation: nothing to summarize, the request is returned
OtherNothingToSummarize ==
    /\ other.pc = "split_done"
    /\ other.old_messages = <<>>
    /\ other' = [other EXCEPT !.pc = "done", !.result = "returned"]
    /\ UNCHANGED <<input_messages, body_messages, valves, body_model, call_model, info,
                   has_emitter, pc, token_count, system_messages, conversation,
                   keep_count, old_messages, recent_messages, prepared_messages,
                   tool_summaries, outcome, summary, summarization_failed, events,
                   calls, result, prev>>

\* second invocation: Step 3 raises the TypeError
OtherPrepareRaise ==
    /\ other.pc = "split_done"
    /\ other.old_messages # <<>>
    /\ PrepareRaises(other.old_messages, valves)
    /\ other' = [other EXCEPT !.pc = "done", !.result = "raised"]
    /\ UNCHANGED <<input_messages, body_messages, valves, body_model, call_model, info,
                   has_emitter, pc, token_count, system_messages, conversation,
                   keep_count, old_messages, recent_messages, prepared_messages,
                   tool_summaries, outcome, summary, summarization_failed, events,
                   calls, result, prev>>

\* second invocation: Steps 3 and 4, to the summarization call
OtherPrepares ==
    /\ other.pc = "split_done"
    /\ other.old_messages # <<>>
    /\ ~PrepareRaises(other.old_messages, valves)
    /\ \E prepared \in {prepare_for_summarization(other.old_messages, valves)} :
           other' = [other EXCEPT !.pc = "calling",
                                  !.prepared_messages = prepared[1],
                                  !.tool_summaries = prepared[2]]
    /\ UNCHANGED <<input_messages, body_messages, valves, body_model, call_model, info,
                   has_emitter, pc, token_count, system_messages, conversation,
                   keep_count, old_messages, recent_messages, prepared_messages,
                   tool_summaries, outcome, summary, summarization_failed, events,
                   calls, result, prev>>

\* second invocation: Steps 5 and 6, from the answer (or the failure) of the
\* summarization call to the return of the request
OtherReturns ==
    /\ other.pc = "calling"
    /\ \E o \in Outcomes \cup {"none"} :
           /\ (o = "none") = (build_summarization_prompt(other.prepared_messages) = <<>>)
           /\ other' =
                  [other EXCEPT
                      !.pc = "done",
                      !.result = "returned",
                      !.outcome = o,
                      !.body_messages =
                          Reconstruct(other.system_messages, other.recent_messages,
                                      other.tool_summaries, IsFailure(o),
                                      ResponseText(o))]
    /\ UNCHANGED <<input_messages, body_messages, valves, body_model, call_model, info,
                   has_emitter, pc, token_count, system_messages, conversation,
                   keep_count, old_messages, recent_messages, prepared_messages,
                   tool_summaries, outcome, summary, summarization_failed, events,
                   calls, result, prev>>

NextPair ==
    \/ Next
    \/ OtherPassThrough
    \/ OtherTrigger
    \/ OtherSplits
    \/ OtherNothingToSummarize
    \/ OtherPrepareRaise
    \/ OtherPrepares
    \/ OtherReturns

\* the requests of the two invocations
PairRequests ==
    {<<m_user>>, <<m_base, m_user>>, <<m_base, m_tool, m_user>>,
     <<m_base, m_user, m_asst, m_user>>, <<m_base, m_rag, m_user>>,
     <<m_parts, m_user>>}

\* one configuration of the instance for both invocations
InitPair ==
    /\ Enter(PairRequests, {ChatModel},
             ValvesOver(TokenThresholds, {0, 2}, {0, 1}, {""}, ToolResultThresholds),
             {TRUE})
    /\ other \in {OtherEnters(messages) : messages \in PairRequests}

SpecPair == InitPair /\ [][NextPair]_vars

\* ------------------------------------------------------------ properties

\* inlet reached Step 6 and returned: summarization (or its fallback) occurred
SummarizationOccurred == pc = "done" /\ result = "returned" /\ old_messages # <<>>

Triggered == input_messages # <<>> /\ count_all_tokens(input_messages) >= valves.token_threshold

\* the last k messages of s
LastK(s, k) == IF k <= 0 THEN <<>> ELSE SliceFromMinus(s, k)

\* the base prompt of the input: its first message when that has role system
BasePrompt == IF input_messages # <<>> /\ input_messages[1].role = "system"
              THEN <<input_messages[1]>> ELSE <<>>

ContainsTruncated(text) == \E i \in 1..Len(text) : text[i] = FALLBACK_NOTE

LastEvent == events[Len(events)]

\* C1: a request whose total token count is below token_threshold is returned
\* with its message list as it came, without a summarization call and
\* without a status event.
C1_BelowThresholdIdentity ==
    count_all_tokens(input_messages) < valves.token_threshold =>
        /\ body_messages = input_messages
        /\ calls = 0
        /\ events = <<>>
        /\ result # "raised"
        /\ pc # "start" => (pc = "done" /\ result = "returned")

C1_Witness ==
    /\ pc = "done"
    /\ result = "returned"
    /\ has_emitter
    /\ Len(input_messages) >= 2
    /\ count_all_tokens(input_messages) < valves.token_threshold

\* C2: inlet never raises an exception to its caller, whatever the messages
\* (string or multi-part content, in the old or the recent segment), the
\* configuration and the outcome of the summarization call.
C2_NeverRaises == result # "raised"

\* C3: when summarization is triggered, the only system messages of the output
\* are the base prompt (if any) and the one synthesized message, also when a
\* system message other than the first is among the most recent messages.
C3_OnlyBaseAndSynthesizedSystem ==
    SummarizationOccurred =>
        Cardinality({i \in 1..Len(body_messages) : body_messages[i].role = "system"})
            = Len(BasePrompt) + 1

\* C4 as claimed: with k = messages_to_keep (or the length of the conversation
\* if it is shorter), the last k messages of the output are the last k
\* messages of the input.
C4_LastKeepCountMessages ==
    SummarizationOccurred =>
        LET k == IF Len(conversation) < valves.messages_to_keep
                 THEN Len(conversation) ELSE valves.messages_to_keep
        IN LastK(body_messages, k) = LastK(input_messages, k)

\* C4 as amended: with k = the length of the recent segment the dynamic split
\* returned, the last k messages of the output are the last k messages of the
\* input; k is messages_to_keep when the conversation without the base prompt
\* is longer than messages_to_keep >= min_messages_to_keep, and otherwise the
\* smaller count the split settled on.
C4_LastRecentMessages ==
    SummarizationOccurred =>
        LET k == Len(recent_messages)
        IN /\ LastK(body_messages, k) = LastK(input_messages, k)
           /\ Len(body_messages) = Len(BasePrompt) + 1 + k
           /\ (/\ Len(conversation) > valves.messages_to_keep
               /\ valves.messages_to_keep >= valves.min_messages_to_keep)
              => k = valves.messages_to_keep
           /\ Len(conversation) <= valves.messages_to_keep => k < Len(conversation)

C4_Witness ==
    /\ SummarizationOccurred
    /\ Len(conversation) <= valves.messages_to_keep
    /\ Len(recent_messages) >= 1
    /\ recent_messages[1] # old_messages[Len(old_messages)]

\* C5: whenever summarization occurs and the first input message has role
\* system, that message is the first message of the output, unchanged, whether
\* the call returned text, returned nothing or failed.
C5_BasePromptFirst ==
    (SummarizationOccurred /\ input_messages[1].role = "system") =>
        body_messages[1] = input_messages[1]

C5_Witness ==
    /\ SummarizationOccurred
    /\ input_messages[1] = m_base
    /\ Len(input_messages) = MaxMsgs
    /\ input_messages[2].role = "system"
    /\ outcome = "timeout"

\* C6: the output of a conversation that triggers summarization has no more
\* messages than the input.
C6_OutputNotLonger ==
    (pc = "done" /\ result = "returned" /\ Triggered) =>
        Len(body_messages) <= Len(input_messages)

C6_Witness ==
    /\ SummarizationOccurred
    /\ Len(old_messages) = 1
    /\ Len(body_messages) = Len(input_messages)
    /\ keep_count < valves.min_messages_to_keep

\* C7: when the summarization call raises or times out, inlet returns the base
\* prompt (if any), one system message carrying the truncation note, and the
\* preserved recent messages; the timeout is handled like any other failure.
C7_FailureFallsBack ==
    (pc = "done" /\ IsFailure(outcome)) =>
        LET n == Len(BasePrompt) + 1
        IN /\ result = "returned"
           /\ Len(body_messages) = n + Len(recent_messages)
           /\ SubSeq(body_messages, 1, n - 1) = BasePrompt
           /\ body_messages[n].role = "system"
           /\ ContainsTruncated(body_messages[n].content.text)
           /\ SubSeq(body_messages, n + 1, Len(body_messages)) = recent_messages
           /\ recent_messages = LastK(input_messages, Len(recent_messages))

C7_Witness ==
    /\ pc = "done"
    /\ outcome = "timeout"
    /\ result = "returned"
    /\ BasePrompt # <<>>
    /\ recent_messages # <<>>

\* C8: for the same conversation and configuration, the output after a failed
\* call equals the output after a call that returned empty or absent text,
\* tool-summaries block included.
C8_FailureEqualsEmpty ==
    (/\ SummarizationOccurred
     /\ prev # NoPrev
     /\ \/ IsFailure(prev.outcome) /\ outcome \in {"empty", "absent"}
        \/ prev.outcome \in {"empty", "absent"} /\ IsFailure(outcome))
    => body_messages = prev.messages

C8_Witness ==
    /\ SummarizationOccurred
    /\ IsFailure(prev.outcome)
    /\ outcome = "absent"
    /\ tool_summaries # <<>>

\* C9: when the truncation fallback is used (error, timeout or empty response)
\* and an emitter is supplied, the last status event reports the truncation
\* or the failure in its description.
C9_FallbackReported ==
    (/\ SummarizationOccurred
     /\ has_emitter
     /\ summarization_failed \/ summary = <<>>)
    => /\ events # <<>>
       /\ LastEvent.done
       /\ LastEvent.description = status_msg(TRUE)

\* C10: when the token count reaches the threshold but the dynamic split
\* yields no old messages (the conversation without the base prompt has no
\* more than min_messages_to_keep messages), inlet returns the input
\* unchanged without a summarization call and, with an emitter, ends with a
\* status event (done = true) saying the context cannot be summarized.
C10_NothingToSummarize ==
    /\ (pc = "done" /\ Triggered /\ old_messages = <<>>) =>
           /\ result = "returned"
           /\ body_messages = input_messages
           /\ calls = 0
           /\ has_emitter =>
                  /\ events # <<>>
                  /\ LastEvent.done
                  /\ LastEvent.description = "Context too large to summarize effectively"
                  /\ \A i \in 1..(Len(events) - 1) : ~events[i].done
    /\ pc = "split_done" =>
           (old_messages = <<>> <=> Len(conversation) <= valves.min_messages_to_keep)

C10_Witness ==
    /\ pc = "done"
    /\ Triggered
    /\ old_messages = <<>>
    /\ has_emitter
    /\ Len(input_messages) = 1

\* the arguments find_dynamic_split was called with
initial_keep == valves.messages_to_keep
min_keep == valves.min_messages_to_keep
FindDynamicSplitReturned == pc = "split_done"

\* C11: split_conversation(messages, k) returns, for every k >= 0, two
\* segments whose concatenation is messages, and so does find_dynamic_split
\* for every initial_keep and min_keep
C11_SplitRoundTrip ==
    /\ (pc = "split" /\ keep_count >= 0) =>
           split_conversation(conversation, keep_count)[1]
               \o split_conversation(conversation, keep_count)[2] = conversation
    /\ FindDynamicSplitReturned => old_messages \o recent_messages = conversation

C11_Witness ==
    /\ FindDynamicSplitReturned
    /\ old_messages # <<>>
    /\ recent_messages # <<>>
    /\ initial_keep > keep_count

\* C12: the recent segment of find_dynamic_split has at least min_keep
\* messages, unless the conversation has fewer than that: then recent is the
\* whole conversation and old is empty
C12_RecentAtLeastMinKeep ==
    FindDynamicSplitReturned =>
        IF Len(conversation) < min_keep
        THEN recent_messages = conversation /\ old_messages = <<>>
        ELSE Len(recent_messages) >= min_keep

C12_Witness ==
    /\ FindDynamicSplitReturned
    /\ initial_keep < min_keep
    /\ min_keep > 0
    /\ Len(conversation) > min_keep
    /\ Len(recent_messages) = min_keep

\* C13: for every list with more than min_keep messages and every
\* initial_keep, find_dynamic_split returns a non-empty old segment
C13_OldNonEmpty ==
    (FindDynamicSplitReturned /\ Len(conversation) > min_keep) => old_messages # <<>>

\* the same, for the arguments a configuration can hold: none below zero
C13_OldNonEmptyFromZero ==
    (FindDynamicSplitReturned /\ Len(conversation) > min_keep
                              /\ initial_keep >= 0 /\ min_keep >= 0)
        => old_messages # <<>>

\* the synthesized message of the output: the one after the base prompt
Synthesized == body_messages[Len(BasePrompt) + 1]

\* C14: whenever summarization occurs the output is the base prompt (0 or 1
\* message), then exactly one synthesized system message (summary form or
\* fallback form), then the recent segment of the dynamic split, which is a
\* suffix of the input in its order; nothing else is in it
C14_OutputIsBaseNoteRecent ==
    SummarizationOccurred =>
        /\ Len(body_messages) = Len(BasePrompt) + 1 + Len(recent_messages)
        /\ Take(body_messages, Len(BasePrompt)) = BasePrompt
        /\ Synthesized.role = "system"
        /\ Synthesized.content.kind = "str"
        /\ Synthesized.content.text[1] \in {SUMMARY_HEADER, FALLBACK_NOTE}
        /\ Drop(body_messages, Len(BasePrompt) + 1) = recent_messages
        /\ recent_messages = LastK(input_messages, Len(recent_messages))

C14_Witness ==
    /\ SummarizationOccurred
    /\ outcome = "text"
    /\ BasePrompt # <<>>
    /\ Len(recent_messages) = 1

\* C15: in one invocation of inlet the summarization endpoint is called at
\* most once; after a failed, timed-out or empty call it was called exactly
\* once
C15_AtMostOneCall ==
    /\ calls <= 1
    /\ (pc = "done" /\ outcome # "none") => calls = 1

C15_Witness ==
    /\ pc = "done"
    /\ result = "returned"
    /\ outcome = "timeout"
    /\ calls = 1

\* C16: the model named in the summarization call is summarizer_model when
\* that is non-empty, and the model identifier of the request otherwise
C16_ModelSent ==
    /\ calls = 0 <=> call_model = "none"
    /\ calls > 0 =>
           IF valves.summarizer_model # ""
           THEN call_model = valves.summarizer_model
           ELSE call_model = body_model

C16_Witness ==
    /\ calls = 1
    /\ valves.summarizer_model # ""
    /\ body_model # ""
    /\ call_model = valves.summarizer_model
    /\ call_model # body_model

\* number of list items in a tool-summaries block
BlockItems(block) == Cardinality({i \in 1..Len(block) : block[i] = "- "})

\* C17: when the summarizer returns non-empty text the synthesized message
\* has role system and its content is the header, the narrative text, the
\* tool-summaries block (there exactly when a tool summary was captured) and
\* the footer, in this order
C17_SummaryMessageLayout ==
    (pc = "done" /\ outcome = "text") =>
        LET text == Synthesized.content.text
            n == Len(NarrativeText)
            block == SubSeq(text, n + 2, Len(text) - 1)
        IN /\ result = "returned"
           /\ Synthesized.role = "system"
           /\ Len(text) >= n + 2
           /\ text[1] = SUMMARY_HEADER
           /\ SubSeq(text, 2, n + 1) = NarrativeText
           /\ text[Len(text)] = SUMMARY_FOOTER
           /\ tool_summaries = <<>> <=> block = <<>>
           /\ tool_summaries # <<>> =>
                  /\ block[1] = TOOLS_HEADER
                  /\ BlockItems(block) = Len(tool_summaries)

C17_Witness ==
    /\ pc = "done"
    /\ outcome = "text"
    /\ tool_summaries # <<>>
    /\ BasePrompt # <<>>

\* prepare_for_summarization was called on the old segment
PrepareCalled == pc \in {"summarize", "reconstruct", "done"} /\ old_messages # <<>>
\* ... and returned
PrepareReturned == PrepareCalled /\ result # "raised"

\* what the claim says prepare_for_summarization returns
RECURSIVE ExpectedPrepared(_)
ExpectedPrepared(messages) ==
    IF messages = <<>> THEN <<>>
    ELSE LET msg == Head(messages)
             detected == msg.content.kind = "str" /\ has_embedded_in_text(msg.content.text)
             big == count_message_tokens(msg) > valves.tool_result_token_threshold
         IN (CASE msg.role = "system" -> <<>>
               [] msg.role = "user" -> <<msg>>
               [] msg.role = "assistant" ->
                      IF detected /\ big THEN <<compact_assistant_with_tool_result(msg)>>
                      ELSE <<msg>>
               [] OTHER -> <<>>)
            \o ExpectedPrepared(Tail(messages))

\* C18: prepare_for_summarization returns the old messages in their order,
\* without the system messages, the user messages unchanged, an assistant
\* message unchanged when no embedded result is detected or its token count
\* is within tool_result_token_threshold, and replaced by its compacted
\* digest message otherwise
C18_PreparedAsDescribed ==
    PrepareCalled =>
        /\ result # "raised"
        /\ prepared_messages = ExpectedPrepared(old_messages)

\* the same, for the calls that return
C18_PreparedWhenReturned ==
    PrepareReturned => prepared_messages = ExpectedPrepared(old_messages)

\* the messages of the old segment that prepare_for_summarization compacts
CompactedOld == SelectSeq(old_messages, LAMBDA msg : IsCompacted(msg, valves))

\* C19: for every assistant message that prepare_for_summarization compacts
\* one entry is appended to the tool summaries, in message order, and it is
\* the whole [Tool: ...] digest string of the message, sample row included
C19_SummaryIsWholeDigest ==
    PrepareReturned =>
        /\ Len(tool_summaries) = Len(CompactedOld)
        /\ \A i \in 1..Len(CompactedOld) :
               tool_summaries[i] = ResultDesc(CompactedOld[i].content)

\* the same, for what the code does keep: one entry per compacted message,
\* in message order, a prefix of the digest
C19_SummaryIsDigestPrefix ==
    PrepareReturned =>
        /\ Len(tool_summaries) = Len(CompactedOld)
        /\ \A i \in 1..Len(CompactedOld) :
               tool_summaries[i]
                   = Take(ResultDesc(CompactedOld[i].content), Len(tool_summaries[i]))

\* C20: extract_tool_result_info on text equal to a digest that
\* compact_assistant_with_tool_result produced yields has_results = false
C20_DigestIsNotAResult ==
    PrepareReturned =>
        \A i \in 1..Len(CompactedOld) :
            ~extract_tool_result_info(
                 StrContent(ResultDesc(CompactedOld[i].content))).has_results

\* extract_tool_result_info returned its info for the content of CompactArg
InfoReturned ==
    \/ pc = "digest"
    \/ pc = "done" /\ result = "returned" /\ calls = 0 /\ prepared_messages # <<>>
       /\ ~EmptyContent(CompactArg.content)
\* compact_assistant_with_tool_result returned the digest message
DigestReturned == pc = "done" /\ InfoReturned
DigestText == prepared_messages[1].content.text

\* neither the {"results": [...]} parse nor the array fallback succeeded
NeitherParseSucceeds(content) ==
    LET decoded == DecodeText(content.text)
        rm == ResultsMatch(decoded)
        am == ArrayMatch(decoded)
    IN /\ ~(rm[1] > 0 /\ ParseArray(SubSeq(decoded, rm[1] + 2, rm[2] - 1))[1])
       /\ ~(am[1] > 0 /\ ParseArray(SubSeq(decoded, am[1] + 1, am[2] - 1))[1])

\* the fallback of C21, for the calls that return
C21_FallbackWhenReturned ==
    (InfoReturned /\ NeitherParseSucceeds(CompactArg.content)) =>
        /\ info.has_results = has_embedded_tool_result(CompactArg.content)
        /\ info.result_count = NoCount
        /\ info.sample_row = NoRow

\* C21: extract_tool_result_info never raises, and when neither parse
\* succeeds it returns has_results = has_embedded_tool_result(content) with
\* no result_count and no sample_row
C21_NeverRaisesAndFallsBack ==
    /\ result # "raised"
    /\ C21_FallbackWhenReturned

\* occurrences of the failure phrase in the content, in any case
Occurrences ==
    Cardinality({i \in 1..Len(CompactArg.content.text) :
                    CompactArg.content.text[i] \in FailurePhrases})

\* C22: has_error is true exactly when the failure phrase occurs at least
\* once, in any case, and error_count is the number of occurrences divided
\* by 2 with integer division
C22_ErrorCountIsHalf ==
    InfoReturned =>
        /\ info.has_error <=> Occurrences >= 1
        /\ info.error_count = Occurrences \div 2

C22_Witness ==
    /\ InfoReturned
    /\ Occurrences = 3
    /\ info.has_error
    /\ info.error_count = 1
    /\ \E i \in 1..3 : CompactArg.content.text[i] # QEF

IsFailedFragment(lx) == \E n \in 0..(MaxPhrases + 1) : lx = ToString(n) \o " failed queries"
IsRowsFragment(lx) == \E n \in 0..(MaxMsgs + 1) : lx = ToString(n) \o " rows"

\* the digest has a failed-call fragment, before its row-count fragment
FailedFragmentFirst ==
    \E i \in 1..Len(DigestText) :
        /\ IsFailedFragment(DigestText[i])
        /\ \A j \in 1..Len(DigestText) : IsRowsFragment(DigestText[j]) => i < j

\* C23: for every assistant message whose content reports a failed call
\* (has_error is true) the digest has a failed-call count fragment, before
\* the row-count fragment
C23_FailedFragmentWhenError ==
    (DigestReturned /\ info.has_error) => FailedFragmentFirst

\* the same, for the messages whose error_count is above zero
C23_FailedFragmentWhenCounted ==
    (DigestReturned /\ info.error_count > 0) => FailedFragmentFirst

\* the end-of-JSON marker was found, and the characters that remain after it
\* once leading whitespace and quotes are stripped
MarkerFound == LastJsonEnd(HtmlUnescape(CompactArg.content.text)) > 0
Remaining ==
    LET decoded == HtmlUnescape(CompactArg.content.text)
    IN TextChars(StripLeading(StripTrailingBlanks(
           Drop(decoded, LastJsonEnd(decoded) + 1))))
CommentaryKept == DigestText # ResultDesc(CompactArg.content)

\* C24: the trailing commentary is kept exactly when at least 30 characters
\* remain after the stripping; otherwise the content is the digest alone
C24_CommentaryFromThirty ==
    DigestReturned =>
        /\ CommentaryKept <=> (MarkerFound /\ Remaining >= 30)
        /\ ~CommentaryKept => DigestText = ResultDesc(CompactArg.content)

\* the same, for more than 30 characters
C24_CommentaryAboveThirty ==
    DigestReturned => (CommentaryKept <=> (MarkerFound /\ Remaining > 30))

\* C25: no stage modifies an input message or the input message list in
\* place: in every step of inlet, pass-through, summarized or fallback, the
\* list the caller supplied and each of its messages stay as they were; the
\* altered messages of the output are new values in body["messages"]
C25_InputsNeverModified == [][input_messages' = input_messages]_vars

C25_Witness ==
    /\ SummarizationOccurred
    /\ tool_summaries # <<>>
    /\ body_messages # input_messages
    /\ \E i \in 1..Len(input_messages) : IsCompacted(input_messages[i], valves)

\* the first keep count of initial_keep, initial_keep div 2, ... that is at
\* least min_keep and leaves a non-empty old segment: <<k>>, or <<>> if none
RECURSIVE FirstKeep(_)
FirstKeep(k) ==
    IF k < min_keep THEN <<>>
    ELSE IF split_conversation(conversation, k)[1] # <<>> THEN <<k>>
    ELSE IF k \div 2 = k THEN <<>>
    ELSE FirstKeep(k \div 2)

SplitAsClaimed ==
    IF FirstKeep(initial_keep) # <<>>
    THEN /\ old_messages = split_conversation(conversation, FirstKeep(initial_keep)[1])[1]
         /\ recent_messages = split_conversation(conversation, FirstKeep(initial_keep)[1])[2]
    ELSE IF Len(conversation) > min_keep
    THEN /\ Len(recent_messages) = min_keep
         /\ recent_messages = LastK(conversation, min_keep)
         /\ old_messages \o recent_messages = conversation
    ELSE /\ old_messages = <<>>
         /\ recent_messages = conversation

\* C27: find_dynamic_split returns the split for the first keep count of
\* initial_keep, initial_keep div 2, ... (those >= min_keep) that leaves a
\* non-empty old segment; when there is none it keeps exactly the last
\* min_keep messages if the list is longer than min_keep, and returns an
\* empty old segment otherwise
C27_FirstKeepOrLastResort == FindDynamicSplitReturned => SplitAsClaimed

\* the same, for the arguments from zero up
C27_FirstKeepOrLastResortFromZero ==
    (FindDynamicSplitReturned /\ initial_keep >= 0 /\ min_keep >= 0) => SplitAsClaimed

\* C28: find_dynamic_split terminates for every message list, the empty one
\* included, and all initial_keep >= 0 and min_keep >= 0
C28_SplitTerminates ==
    (initial_keep >= 0 /\ min_keep >= 0) => <>FindDynamicSplitReturned

\* the same, for min_keep from one up
C28_SplitTerminatesFromOne ==
    (initial_keep >= 0 /\ min_keep >= 1) => <>FindDynamicSplitReturned

IsSummarizingEvent(e) ==
    /\ e.description = "Summarizing conversation ({token_count:,} tokens)..."
    /\ ~e.done

FirstEventIsSummarizing ==
    /\ (Triggered /\ pc # "start") => (events # <<>> /\ IsSummarizingEvent(events[1]))
    /\ pc = "summarize" => Len(events) = 1
    /\ calls > 0 => events # <<>>

OneDoneEventLast ==
    /\ events # <<>>
    /\ LastEvent.done
    /\ \A i \in 1..(Len(events) - 1) : ~events[i].done

C29_StatusEventOrderWhenReturned ==
    has_emitter =>
        /\ FirstEventIsSummarizing
        /\ (pc = "done" /\ Triggered /\ result = "returned") => OneDoneEventLast

\* a message that prompt construction leaves out: system role, or content
\* that is empty, whitespace-only or not a string
LeftOutOfPrompt(msg) ==
    \/ msg.role = "system"
    \/ msg.content.kind # "str"
    \/ \A i \in 1..Len(msg.content.text) : IsBlank(msg.content.text[i])

AllLeftOut == old_messages # <<>> /\ \A i \in 1..Len(old_messages) : LeftOutOfPrompt(old_messages[i])

NoCallAndFallback ==
    /\ pc \in {"summarize", "reconstruct", "done"} =>
           build_summarization_prompt(prepared_messages) = <<>>
    /\ calls = 0
    /\ pc = "done" =>
           /\ result = "returned"
           /\ body_messages = BasePrompt \o <<fallback_note(tool_summaries)>> \o recent_messages

C30_EmptyPromptFallsBackWhenPrepared ==
    (AllLeftOut /\ result # "raised") => NoCallAndFallback

\* inlet run alone on a request, given what the summarization call does:
\* whether it returns or raises, and the conversation of the body afterwards
InletAlone(messages, o) ==
    LET base == extract_base_system_prompt(messages)
        split == find_dynamic_split(base[2], valves.messages_to_keep,
                                    valves.min_messages_to_keep)
        prepared == prepare_for_summarization(split[2], valves)
        called == build_summarization_prompt(prepared[1]) # <<>>
    IN  IF messages = <<>> \/ count_all_tokens(messages) < valves.token_threshold
        THEN [result |-> "returned", messages |-> messages]
        ELSE IF ~split[1]
        THEN [result |-> "none", messages |-> messages]
        ELSE IF split[2] = <<>>
        THEN [result |-> "returned", messages |-> messages]
        ELSE IF PrepareRaises(split[2], valves)
        THEN [result |-> "raised", messages |-> messages]
        ELSE [result |-> "returned",
              messages |-> Reconstruct(base[1], split[3], prepared[2],
                                       called /\ IsFailure(o),
                                       IF called THEN ResponseText(o) ELSE <<>>)]

\* C26: when two invocations of inlet on one filter instance interleave at
\* their suspension points, each returns the conversation it returns when run
\* alone with the same request, configuration and summarizer response
C26_InterleavedAsAlone ==
    /\ pc = "done" =>
           /\ result = InletAlone(input_messages, outcome).result
           /\ body_messages = InletAlone(input_messages, outcome).messages
    /\ other.pc = "done" =>
           /\ other.result = InletAlone(other.input_messages, other.outcome).result
           /\ other.body_messages =
                  InletAlone(other.input_messages, other.outcome).messages

\* both invocations returned a summarized conversation with tool summaries,
\* the second having prepared its segment while the first was under way
C26_Witness ==
    /\ pc = "done" /\ result = "returned"
    /\ other.pc = "done" /\ other.result = "returned"
    /\ other.met
    /\ outcome = "text" /\ other.outcome = "error"
    /\ tool_summaries # <<>>
    /\ other.tool_summaries # <<>>
    /\ body_messages # input_messages
    /\ other.body_messages # other.input_messages
====
